---- MODULE Spec2Model ----
(***************************************************************************)
(* Quiet-RSS feed synchronization engine.                                  *)
(*                                                                         *)
(*   RSSParser    (packages/core/src/parsers/rss-parser.ts, src/unnamed/   *)
(*                 part_008): URL validation, bounded retry, error         *)
(*                 classification.                                         *)
(*   FeedManager  (packages/core/src/managers/feed-manager.ts): addFeed,   *)
(*                 updateFeed, removeFeed, refreshFeed, refreshAllFeeds    *)
(*                 over the StorageManager's two flat collections.         *)
(*   ArticleManager (src/unnamed/part_009): markAsRead, markAsUnread,      *)
(*                 toggleStar, markFeedAsRead, markAllAsRead and           *)
(*                 cleanupOldArticles over the article collection.         *)
(*   CategoryManager (src/unnamed/part_010): createCategory,               *)
(*                 updateCategory, deleteCategory over the category and    *)
(*                 feed collections.                                       *)
(*                                                                         *)
(* Eight specifications share the variables:                               *)
(*   FetchSpec  one validateFeed / parseFeed call, attempt by attempt;     *)
(*   SeqSpec    FeedManager operations run one after the other, each       *)
(*              handler one action;                                        *)
(*   ConcSpec   refreshFeed calls in flight together, one action per       *)
(*              stretch of code between two awaits, with removeFeed and    *)
(*              the article updates running in between;                    *)
(*   OverlapSpec  refreshFeed calls in flight together, with updateFeed    *)
(*              running in between;                                        *)
(*   StepSpec   addFeed, removeFeed and refreshFeed run write by write,    *)
(*              each storage write resolving or rejecting;                 *)
(*   FairBatchSpec  refreshAllFeeds with every step of its calls weakly    *)
(*              fair;                                                      *)
(*   ArticleSpec  FeedManager and ArticleManager operations run one after  *)
(*              the other;                                                 *)
(*   CategorySpec  CategoryManager operations run one after the other.     *)
(***************************************************************************)
EXTENDS Integers, Sequences, FiniteSets, TLC

VARIABLES
    \* ---- RSSParser: one validateFeed / parseFeed call
    fop,        \* which entry point runs: "validateFeed" | "parseFeed" | "none"
    furl,       \* the url argument
    fpc,        \* "idle" | "attempt" | "delay" | "done"
    attempt,    \* the loop variable of parseWithRetries
    lastError,  \* parseWithRetries' lastError (NoError while undefined)
    history,    \* outcome of every parser.parseURL call made, in order
    waits,      \* number of delay(retryDelay) calls made
    fres,       \* what the entry point returned or threw
    \* ---- StorageManager: the two collections
    feeds,      \* value stored under quiet-rss:feeds
    articles,   \* value stored under quiet-rss:articles
    \* ---- FeedManager
    nextId,     \* ids handed out so far by generateId
    clock,      \* the Date every "new Date()" reads
    last,       \* the operation that completed last, and what it returned
    ingested,   \* per feed id, the guids of the parsed articles ingested so far
    procs,      \* the refreshFeed calls made, each with its locals (ConcSpec)
    batch,      \* the refreshAllFeeds call: its locals and what it returned (ConcSpec)
    call,       \* the addFeed / removeFeed / refreshFeed call run write by write (StepSpec)
    \* ---- CategoryManager
    categories, \* value stored under quiet-rss:categories
    catIds      \* number of ids handed out so far by CategoryManager.generateId

fetchVars == <<fop, furl, fpc, attempt, lastError, history, waits, fres>>
storeVars == <<feeds, articles>>
mgrVars   == <<nextId, clock, last, ingested>>
concVars  == <<procs, batch, call>>
catVars   == <<categories, catIds>>
vars      == <<fetchVars, storeVars, mgrVars, concVars, catVars>>

(***************************************************************************)
(* RSSParser                                                               *)
(***************************************************************************)

\* config.maxRetries || 3 ; FeedManager builds its parser with no config.
maxRetries == 3

\* RSSErrorType
NETWORK_ERROR == "NETWORK_ERROR"
TIMEOUT_ERROR == "TIMEOUT_ERROR"
PARSE_ERROR   == "PARSE_ERROR"
INVALID_URL   == "INVALID_URL"
NOT_FOUND     == "NOT_FOUND"
ACCESS_DENIED == "ACCESS_DENIED"
SERVER_ERROR  == "SERVER_ERROR"

\* The url arguments tried, with what "new URL(url)" makes of each:
\* its protocol, or "throws" when the constructor rejects the string.
Urls == {"https://a.example/feed", "http://b.example/rss",
         "ftp://c.example/feed", "not-a-url"}

UrlProtocol(url) ==
    CASE url = "https://a.example/feed" -> "https:"
      [] url = "http://b.example/rss"   -> "http:"
      [] url = "ftp://c.example/feed"   -> "ftp:"
      [] OTHER                          -> "throws"

\* isValidUrl without the check of the protocol.
isValidUrl_AnyProtocol(url) == UrlProtocol(url) # "throws"

isValidUrl(url) ==
    IF UrlProtocol(url) = "throws" THEN FALSE
    ELSE UrlProtocol(url) = "http:" \/ UrlProtocol(url) = "https:"

\* An error thrown by parser.parseURL: error.code, error.status, error.message.
\* NoCode / NoStatus stand for an undefined property.
NoCode   == "undefined"
NoStatus == 0
Codes    == {NoCode, "ENOTFOUND", "ECONNREFUSED", "ETIMEDOUT"}
Statuses == {NoStatus, 400, 403, 404, 429, 500}
Messages == {"Status code", "Invalid XML", "Not a feed",
             "Unable to parse XML.", "socket timeout"}
Errors   == [code : Codes, status : Statuses, message : Messages]

InvalidUrlMessage == "Invalid URL format - must be a valid HTTP or HTTPS URL"
InvalidUrlError   == [code |-> NoCode, status |-> NoStatus, message |-> InvalidUrlMessage]

\* String.prototype.includes on the messages above.
Includes(message, pattern) ==
    CASE message = "Invalid XML"          -> pattern = "Invalid XML"
      [] message = "Not a feed"           -> pattern = "Not a feed"
      [] message = "Unable to parse XML." -> pattern = "parse"
      [] message = "socket timeout"       -> pattern = "timeout"
      [] OTHER                            -> FALSE

\* shouldNotRetry with its checks dropped: every failure is retried.
shouldNotRetry_Never(error) == FALSE

shouldNotRetry(error) ==
    IF error.status >= 400 /\ error.status < 500 /\ error.status # 429
    THEN TRUE
    ELSE IF Includes(error.message, "Invalid XML") \/ Includes(error.message, "Not a feed")
         THEN TRUE
         ELSE FALSE

NoInfo == [type |-> "null", message |-> "null"]

getNetworkError(code, message) ==
    IF code = "ENOTFOUND"
    THEN [type |-> NETWORK_ERROR, message |-> "Domain not found or network connection failed"]
    ELSE IF code = "ECONNREFUSED"
    THEN [type |-> NETWORK_ERROR, message |-> "Connection refused by server"]
    ELSE IF code = "ETIMEDOUT"
    THEN [type |-> TIMEOUT_ERROR, message |-> "Request timed out"]
    ELSE IF Includes(message, "timeout")
    THEN [type |-> TIMEOUT_ERROR, message |-> "Request timed out"]
    ELSE NoInfo

getHttpError(status) ==
    IF status = NoStatus THEN NoInfo
    ELSE IF status = 404 THEN [type |-> NOT_FOUND, message |-> "Feed not found (404)"]
    ELSE IF status = 403 THEN [type |-> ACCESS_DENIED, message |-> "Access denied (403)"]
    ELSE IF status >= 500 THEN [type |-> SERVER_ERROR, message |-> "Server error"]
    ELSE NoInfo

isParseError(message) ==
    \E pattern \in {"Invalid XML", "Not a feed", "parse"} : Includes(message, pattern)

\* parseError with the HTTP status checked before the network code.
parseError_HttpFirst(error) ==
    LET networkError == getNetworkError(error.code, error.message)
        httpError    == getHttpError(error.status)
    IN  IF httpError # NoInfo
        THEN [message |-> httpError.message, type |-> httpError.type,
              statusCode |-> error.status]
        ELSE IF networkError # NoInfo
        THEN [message |-> networkError.message, type |-> networkError.type,
              statusCode |-> error.status]
        ELSE IF isParseError(error.message)
        THEN [message |-> error.message, type |-> PARSE_ERROR, statusCode |-> error.status]
        ELSE [message |-> error.message, type |-> NETWORK_ERROR, statusCode |-> error.status]

parseError(error) ==
    LET networkError == getNetworkError(error.code, error.message)
        httpError    == getHttpError(error.status)
    IN  IF networkError # NoInfo
        THEN [message |-> networkError.message, type |-> networkError.type,
              statusCode |-> error.status]
        ELSE IF httpError # NoInfo
        THEN [message |-> httpError.message, type |-> httpError.type,
              statusCode |-> error.status]
        ELSE IF isParseError(error.message)
        THEN [message |-> error.message, type |-> PARSE_ERROR, statusCode |-> error.status]
        ELSE [message |-> error.message, type |-> NETWORK_ERROR, statusCode |-> error.status]

NoError  == [code |-> NoCode, status |-> NoStatus, message |-> "none"]
Fetched  == [code |-> NoCode, status |-> 200, message |-> "ok"]
NoResult == [ok |-> FALSE, type |-> "none", message |-> "none", statusCode |-> NoStatus]
Success  == [ok |-> TRUE, type |-> "none", message |-> "none", statusCode |-> NoStatus]

\* What validateFeed returns / parseFeed throws once its catch block has run
\* parseError on the error that reached it.
Failure(error) ==
    [ok |-> FALSE, type |-> parseError(error).type,
     message |-> parseError(error).message, statusCode |-> parseError(error).statusCode]

FetchInit ==
    /\ fop = "none" /\ furl = "none" /\ fpc = "idle"
    /\ attempt = 0 /\ lastError = NoError /\ history = << >> /\ waits = 0
    /\ fres = NoResult

\* validateFeed(url) / parseFeed(url) up to the call of parseWithRetries.
Enter(op, url) ==
    /\ fpc = "idle"
    /\ fop' = op /\ furl' = url
    /\ IF ~isValidUrl(url)
       THEN /\ fpc' = "done"
            /\ fres' = IF op = "validateFeed"
                       THEN [ok |-> FALSE, type |-> INVALID_URL,
                             message |-> InvalidUrlMessage, statusCode |-> NoStatus]
                       ELSE Failure(InvalidUrlError)
            /\ UNCHANGED attempt
       ELSE /\ fpc' = "attempt"
            /\ attempt' = 1
            /\ UNCHANGED fres
    /\ UNCHANGED <<lastError, history, waits, storeVars, mgrVars, concVars, catVars>>

\* parser.parseURL(url) resolves: parseWithRetries returns the feed.
AttemptSucceeds ==
    /\ fpc = "attempt"
    /\ history' = Append(history, Fetched)
    /\ fpc' = "done"
    /\ fres' = Success
    /\ UNCHANGED <<fop, furl, attempt, lastError, waits, storeVars, mgrVars, concVars, catVars>>

\* AttemptFails with the delay made after the last attempt as well.
AttemptFails_AlwaysDelays(error) ==
    /\ fpc = "attempt"
    /\ history' = Append(history, error)
    /\ lastError' = error
    /\ IF shouldNotRetry(error)
       THEN /\ fpc' = "done"
            /\ fres' = Failure(error)
            /\ UNCHANGED <<attempt, waits>>
       ELSE /\ fpc' = "delay"
            /\ waits' = waits + 1
            /\ UNCHANGED <<attempt, fres>>
    /\ UNCHANGED <<fop, furl, storeVars, mgrVars, concVars, catVars>>

\* AttemptFails with lastError assigned on the first failure only.
AttemptFails_FirstError(error) ==
    LET kept == IF lastError = NoError THEN error ELSE lastError
    IN  /\ fpc = "attempt"
        /\ history' = Append(history, error)
        /\ lastError' = kept
        /\ IF shouldNotRetry(error)
           THEN /\ fpc' = "done"
                /\ fres' = Failure(kept)
                /\ UNCHANGED <<attempt, waits>>
           ELSE IF attempt < maxRetries
           THEN /\ fpc' = "delay"
                /\ waits' = waits + 1
                /\ UNCHANGED <<attempt, fres>>
           ELSE /\ fpc' = "done"
                /\ attempt' = attempt + 1
                /\ fres' = Failure(kept)
                /\ UNCHANGED waits
        /\ UNCHANGED <<fop, furl, storeVars, mgrVars, concVars, catVars>>

\* parser.parseURL(url) rejects with error: the catch block of the loop.
AttemptFails(error) ==
    /\ fpc = "attempt"
    /\ history' = Append(history, error)
    /\ lastError' = error
    /\ IF shouldNotRetry(error)
       THEN /\ fpc' = "done"
            /\ fres' = Failure(error)
            /\ UNCHANGED <<attempt, waits>>
       ELSE IF attempt < maxRetries
       THEN /\ fpc' = "delay"
            /\ waits' = waits + 1
            /\ UNCHANGED <<attempt, fres>>
       ELSE /\ fpc' = "done"
            /\ attempt' = attempt + 1
            /\ fres' = Failure(error)
            /\ UNCHANGED waits
    /\ UNCHANGED <<fop, furl, storeVars, mgrVars, concVars, catVars>>

\* delay(retryDelay) resolves: attempt++ and the loop goes round.
DelayElapses ==
    /\ fpc = "delay"
    /\ attempt' = attempt + 1
    /\ fpc' = "attempt"
    /\ UNCHANGED <<fop, furl, lastError, history, waits, fres, storeVars, mgrVars, concVars, catVars>>

FetchNext ==
    \/ \E op \in {"validateFeed", "parseFeed"}, url \in Urls : Enter(op, url)
    \/ AttemptSucceeds
    \/ \E error \in Errors : AttemptFails(error)
    \/ DelayElapses

(***************************************************************************)
(* Upstream documents                                                      *)
(***************************************************************************)

\* Largest number of items in a document the feed-parsing library returns
\* (ABCDoc apart).
MaxItems == 2

\* A raw item of the feed-parsing library: its link and guid ("undefined"
\* when the item has none).
NoLink == "undefined"
NoGuid == "undefined"
Links  == {"A", "B", "C"}

SeqsUpTo(S, n) == UNION {[1..k -> S] : k \in 0..n}

\* Documents of up to MaxItems linked items (repeated links included), the
\* document A, B, C, the documents of one or two items without a link, and the
\* one-item documents whose item carries a guid.
Plain(link) == [link |-> link, guid |-> NoGuid]
ABCDoc      == <<Plain("A"), Plain("B"), Plain("C")>>
PlainDocs   == SeqsUpTo({Plain(link) : link \in Links}, MaxItems) \cup {ABCDoc}
NoLinkItem == [link |-> NoLink, guid |-> NoGuid]
NoLinkDocs == {<<NoLinkItem>>, <<NoLinkItem, NoLinkItem>>}
GuidDocs   == {<<item>> : item \in [link : {"A", "B"}, guid : {"g1"}]}
Docs       == PlainDocs \cup NoLinkDocs \cup GuidDocs

\* RSSParser.parseArticles: url is item.link || '', guid is item.guid || undefined.
parseArticles(items) ==
    [i \in 1..Len(items) |->
        [url  |-> IF items[i].link = NoLink THEN "" ELSE items[i].link,
         guid |-> items[i].guid]]

(***************************************************************************)
(* FeedManager: the computations of its handlers                           *)
(***************************************************************************)

\* The lookup without its "not found" outcome.
HasFeed_Always(fs, feedId) == TRUE

\* feeds.find(f => f.id === feedId) / feeds.findIndex(...)
HasFeed(fs, feedId) == \E i \in 1..Len(fs) : fs[i].id = feedId

FeedIndex(fs, feedId) ==
    CHOOSE i \in 1..Len(fs) : fs[i].id = feedId /\ \A j \in 1..(i - 1) : fs[j].id # feedId

FindFeed(fs, feedId) == fs[FeedIndex(fs, feedId)]

\* existingArticles.filter(a => a.feedId === feedId)
feedArticles(arts, feedId) == SelectSeq(arts, LAMBDA a : a.feedId = feedId)

\* existingUrls left empty.
existingUrls_None(arts, feedId) == {}

\* existingUrls without the filter on feedId.
existingUrls_AllFeeds(arts, feedId) == {arts[i].url : i \in 1..Len(arts)}

\* new Set(feedArticles.map(a => a.url))
existingUrls(arts, feedId) ==
    {feedArticles(arts, feedId)[i].url : i \in 1..Len(feedArticles(arts, feedId))}

\* newParsedArticles without the filter, and with the filter's result reversed.
newParsedArticles_Unfiltered(parsed, arts, feedId) == parsed

newParsedArticles_Reversed(parsed, arts, feedId) ==
    LET kept == SelectSeq(parsed, LAMBDA p : p.url \notin existingUrls(arts, feedId))
    IN  [i \in 1..Len(kept) |-> kept[Len(kept) + 1 - i]]

\* parsedFeed.articles.filter(article => !existingUrls.has(article.url))
newParsedArticles(parsed, arts, feedId) ==
    SelectSeq(parsed, LAMBDA p : p.url \notin existingUrls(arts, feedId))

\* parsed.map(parsedArticle => ({id: generateId(), feedId, url, isRead: false,
\* isStarred: false, ...})): the ids are the next ones generateId hands out.
ToArticles(parsed, feedId, idsUsed) ==
    [i \in 1..Len(parsed) |->
        [id |-> idsUsed + i, feedId |-> feedId, url |-> parsed[i].url,
         isRead |-> FALSE, isStarred |-> FALSE]]

\* parsedFeed.title; an undefined categoryId; an undefined refreshInterval.
ParsedTitle == "Feed title"
NoCategory  == "undefined"
NoInterval  == 0

\* NewFeed with unreadCount left at 0.
NewFeed_NothingUnread(id, url, count, now) ==
    [id |-> id, title |-> ParsedTitle, url |-> url, categoryId |-> NoCategory,
     lastUpdated |-> now, lastFetched |-> now,
     unreadCount |-> 0, totalCount |-> count, isActive |-> TRUE,
     refreshInterval |-> NoInterval]

\* addFeed's feed object.
NewFeed(id, url, count, now) ==
    [id |-> id, title |-> ParsedTitle, url |-> url, categoryId |-> NoCategory,
     lastUpdated |-> now, lastFetched |-> now,
     unreadCount |-> count, totalCount |-> count, isActive |-> TRUE,
     refreshInterval |-> NoInterval]

\* A FeedUpdatePayload: given holds the names of the properties that are not
\* undefined; the value of a property that is not given is never read.
PayloadKeys == {"title", "categoryId", "refreshInterval", "isActive"}

Payload(given, isActive) ==
    [given |-> given, title |-> "Renamed", categoryId |-> "c1",
     refreshInterval |-> 30, isActive |-> isActive]

NoPayload == Payload({}, FALSE)

Payloads ==
    {Payload(given, isActive) : given \in SUBSET PayloadKeys, isActive \in BOOLEAN}
        \ {Payload(given, TRUE) : given \in SUBSET (PayloadKeys \ {"isActive"})}

\* updateFeed's assignments with their "!== undefined" checks dropped.
UpdatedFeed_AssignsAll(feed, payload) ==
    [feed EXCEPT !.title = IF "title" \in payload.given THEN payload.title ELSE "undefined",
                 !.categoryId = IF "categoryId" \in payload.given
                                THEN payload.categoryId ELSE NoCategory,
                 !.refreshInterval = IF "refreshInterval" \in payload.given
                                     THEN payload.refreshInterval ELSE NoInterval,
                 !.isActive = IF "isActive" \in payload.given THEN payload.isActive ELSE FALSE]

\* updateFeed's assignments to the feed it found.
UpdatedFeed(feed, payload) ==
    [feed EXCEPT !.title = IF "title" \in payload.given THEN payload.title ELSE @,
                 !.categoryId = IF "categoryId" \in payload.given THEN payload.categoryId ELSE @,
                 !.refreshInterval = IF "refreshInterval" \in payload.given
                                     THEN payload.refreshInterval ELSE @,
                 !.isActive = IF "isActive" \in payload.given THEN payload.isActive ELSE @]

\* RefreshedFeeds with totalCount raised by one more than the articles appended.
RefreshedFeeds_CountsOneMore(fs, feedId, count, now) ==
    [fs EXCEPT ![FeedIndex(fs, feedId)] =
        [@ EXCEPT !.lastUpdated = now, !.lastFetched = now,
                  !.unreadCount = @ + count, !.totalCount = @ + count + 1]]

\* RefreshedFeeds with totalCount left as it was.
RefreshedFeeds_UnreadOnly(fs, feedId, count, now) ==
    [fs EXCEPT ![FeedIndex(fs, feedId)] =
        [@ EXCEPT !.lastUpdated = now, !.lastFetched = now,
                  !.unreadCount = @ + count]]

\* refreshFeed's update of its snapshot of the feed collection.
RefreshedFeeds(fs, feedId, count, now) ==
    [fs EXCEPT ![FeedIndex(fs, feedId)] =
        [@ EXCEPT !.lastUpdated = now, !.lastFetched = now,
                  !.unreadCount = @ + count, !.totalCount = @ + count]]

\* ActiveIds without the filter on isActive.
ActiveIds_All(fs) == [i \in 1..Len(fs) |-> fs[i].id]

\* feeds.filter(f => f.isActive), as ids in the order of the collection
ActiveIds(fs) ==
    LET active == SelectSeq(fs, LAMBDA f : f.isActive)
    IN  [i \in 1..Len(active) |-> active[i].id]

\* The guids of the parsed articles (those that have one).
GuidsOf(parsed) == {parsed[i].guid : i \in 1..Len(parsed)} \ {NoGuid}

(***************************************************************************)
(* FeedManager: operations run one after the other (SeqSpec)               *)
(***************************************************************************)

\* Number of operations in a run.
MaxOps == 3

\* An id no stored feed has (generateId never hands it out).
AbsentId == 0

\* error.message of the error parser.parseFeed rejected with.
FetchErrorMessage == "message of the error parseFeed threw"

NoOp == [op |-> "none", feedId |-> AbsentId, ok |-> FALSE, thrown |-> FALSE,
         newArticleCount |-> 0, appended |-> 0, items |-> << >>, again |-> "no",
         fetch |-> "none", error |-> "undefined", payload |-> NoPayload,
         categoryId |-> NoCategory, reassignTo |-> NoCategory]

FeedIds(fs) == {fs[i].id : i \in 1..Len(fs)}

\* The k-th smallest element of a set of numbers.
NthOf(I, k) == CHOOSE i \in I : Cardinality({j \in I : j < i}) = k - 1

\* The array a call returns, as its length and its elements.
NoReturn == [length |-> 0, elements |-> << >>]

NoBatch == [state |-> "none", feeds |-> << >>, articles |-> << >>, members |-> {},
            returned |-> NoReturn]

\* No addFeed / removeFeed call made yet. before: the two collections when the
\* call was made.
NoCall == [op |-> "none", pc |-> "done", feedId |-> AbsentId, thrown |-> FALSE,
           feed |-> NewFeed(AbsentId, "none", 0, 0), parsed |-> << >>,
           before |-> [feeds |-> << >>, articles |-> << >>]]

StoreInit ==
    /\ feeds = << >> /\ articles = << >>
    /\ nextId = 0 /\ clock = 0 /\ last = NoOp /\ ingested = {}
    /\ procs = << >> /\ batch = NoBatch /\ call = NoCall
    /\ categories = << >> /\ catIds = 0

Init == FetchInit /\ StoreInit

\* addFeed({url}). validates / fetches: whether parseWithRetries succeeds
\* inside validateFeed and inside parseFeed; items: what parseFeed gets.
addFeed(url, validates, fetches, items) ==
    /\ clock < MaxOps
    /\ clock' = clock + 1
    /\ IF ~isValidUrl(url) \/ ~validates \/ ~fetches
       THEN /\ last' = [NoOp EXCEPT !.op = "addFeed", !.thrown = TRUE]
            /\ UNCHANGED <<feeds, articles, nextId, ingested>>
       ELSE LET parsed == parseArticles(items)
                feed   == NewFeed(nextId + 1, url, Len(parsed), clock')
                new    == ToArticles(parsed, feed.id, nextId + 1)
            IN  /\ feeds' = Append(feeds, feed)
                /\ articles' = articles \o new
                /\ nextId' = nextId + 1 + Len(parsed)
                /\ ingested' = ingested \cup {<<feed.id, g>> : g \in GuidsOf(parsed)}
                /\ last' = [NoOp EXCEPT !.op = "addFeed", !.feedId = feed.id, !.ok = TRUE,
                                        !.newArticleCount = Len(parsed),
                                        !.appended = Len(new), !.items = items]
    /\ UNCHANGED <<fetchVars, catVars, concVars>>

\* refreshFeed with the feed's lastUpdated and lastFetched written on a failed
\* fetch as well.
refreshFeed_StampsOnFailure(feedId, fetches, items) ==
    /\ clock < MaxOps
    /\ clock' = clock + 1
    /\ IF ~HasFeed(feeds, feedId)
       THEN /\ last' = [NoOp EXCEPT !.op = "refreshFeed", !.feedId = feedId, !.thrown = TRUE]
            /\ UNCHANGED <<feeds, articles, nextId, ingested>>
       ELSE IF ~fetches
       THEN /\ last' = [NoOp EXCEPT !.op = "refreshFeed", !.feedId = feedId,
                                    !.fetch = "rejected", !.error = FetchErrorMessage]
            /\ feeds' = RefreshedFeeds(feeds, feedId, 0, clock')
            /\ UNCHANGED <<articles, nextId, ingested>>
       ELSE LET parsed      == parseArticles(items)
                newParsed   == newParsedArticles(parsed, articles, feedId)
                newArticles == ToArticles(newParsed, feedId, nextId)
            IN  /\ articles' = articles \o newArticles
                /\ feeds' = RefreshedFeeds(feeds, feedId, Len(newArticles), clock')
                /\ nextId' = nextId + Len(newArticles)
                /\ ingested' = ingested \cup {<<feedId, g>> : g \in GuidsOf(newParsed)}
                /\ last' = [NoOp EXCEPT !.op = "refreshFeed", !.feedId = feedId, !.ok = TRUE,
                                        !.fetch = "resolved",
                                        !.newArticleCount = Len(newArticles),
                                        !.appended = Len(articles') - Len(articles),
                                        !.items = items,
                                        !.again = IF /\ last.ok
                                                     /\ last.op \in {"addFeed", "refreshFeed"}
                                                     /\ last.feedId = feedId
                                                     /\ last.items = items
                                                  THEN last.op ELSE "no"]
    /\ UNCHANGED <<fetchVars, catVars, concVars>>

\* refreshFeed(feedId). fetches: whether parser.parseFeed(feed.url) resolves;
\* items: the document it then gets.
refreshFeed(feedId, fetches, items) ==
    /\ clock < MaxOps
    /\ clock' = clock + 1
    /\ IF ~HasFeed(feeds, feedId)
       THEN /\ last' = [NoOp EXCEPT !.op = "refreshFeed", !.feedId = feedId, !.thrown = TRUE]
            /\ UNCHANGED <<feeds, articles, nextId, ingested>>
       ELSE IF ~fetches
       THEN /\ last' = [NoOp EXCEPT !.op = "refreshFeed", !.feedId = feedId,
                                    !.fetch = "rejected", !.error = FetchErrorMessage]
            /\ UNCHANGED <<feeds, articles, nextId, ingested>>
       ELSE LET parsed      == parseArticles(items)
                newParsed   == newParsedArticles(parsed, articles, feedId)
                newArticles == ToArticles(newParsed, feedId, nextId)
            IN  /\ articles' = articles \o newArticles
                /\ feeds' = RefreshedFeeds(feeds, feedId, Len(newArticles), clock')
                /\ nextId' = nextId + Len(newArticles)
                /\ ingested' = ingested \cup {<<feedId, g>> : g \in GuidsOf(newParsed)}
                /\ last' = [NoOp EXCEPT !.op = "refreshFeed", !.feedId = feedId, !.ok = TRUE,
                                        !.fetch = "resolved",
                                        !.newArticleCount = Len(newArticles),
                                        !.appended = Len(articles') - Len(articles),
                                        !.items = items,
                                        !.again = IF /\ last.ok
                                                     /\ last.op \in {"addFeed", "refreshFeed"}
                                                     /\ last.feedId = feedId
                                                     /\ last.items = items
                                                  THEN last.op ELSE "no"]
    /\ UNCHANGED <<fetchVars, catVars, concVars>>

\* removeFeed with the filter of the articles keeping the removed feed's
\* articles and dropping the others'.
removeFeed_DropsOtherArticles(feedId) ==
    /\ clock < MaxOps
    /\ clock' = clock + 1
    /\ IF ~HasFeed(feeds, feedId)
       THEN /\ last' = [NoOp EXCEPT !.op = "removeFeed", !.feedId = feedId, !.thrown = TRUE]
            /\ UNCHANGED <<feeds, articles>>
       ELSE /\ feeds' = SelectSeq(feeds, LAMBDA f : f.id # feedId)
            /\ articles' = SelectSeq(articles, LAMBDA a : a.feedId = feedId)
            /\ last' = [NoOp EXCEPT !.op = "removeFeed", !.feedId = feedId, !.ok = TRUE]
    /\ UNCHANGED <<nextId, ingested, fetchVars, catVars, concVars>>

\* removeFeed(feedId)
removeFeed(feedId) ==
    /\ clock < MaxOps
    /\ clock' = clock + 1
    /\ IF ~HasFeed(feeds, feedId)
       THEN /\ last' = [NoOp EXCEPT !.op = "removeFeed", !.feedId = feedId, !.thrown = TRUE]
            /\ UNCHANGED <<feeds, articles>>
       ELSE /\ feeds' = SelectSeq(feeds, LAMBDA f : f.id # feedId)
            /\ articles' = SelectSeq(articles, LAMBDA a : a.feedId # feedId)
            /\ last' = [NoOp EXCEPT !.op = "removeFeed", !.feedId = feedId, !.ok = TRUE]
    /\ UNCHANGED <<nextId, ingested, fetchVars, catVars, concVars>>

\* updateFeed({id: feedId, ...payload})
updateFeed(feedId, payload) ==
    /\ clock < MaxOps
    /\ clock' = clock + 1
    /\ IF ~HasFeed(feeds, feedId)
       THEN /\ last' = [NoOp EXCEPT !.op = "updateFeed", !.feedId = feedId, !.thrown = TRUE,
                                    !.payload = payload]
            /\ UNCHANGED feeds
       ELSE /\ feeds' = [feeds EXCEPT ![FeedIndex(feeds, feedId)] = UpdatedFeed(@, payload)]
            /\ last' = [NoOp EXCEPT !.op = "updateFeed", !.feedId = feedId, !.ok = TRUE,
                                    !.payload = payload]
    /\ UNCHANGED <<articles, nextId, ingested, fetchVars, catVars, concVars>>

\* ArticleManager.updateArticle({id: articleId, [key]: value})
updateArticle(articleId, key, value) ==
    /\ clock < MaxOps
    /\ clock' = clock + 1
    /\ IF \E k \in 1..Len(articles) : articles[k].id = articleId
       THEN LET articleIndex == CHOOSE k \in 1..Len(articles) : articles[k].id = articleId
            IN  /\ articles' = [articles EXCEPT ![articleIndex][key] = value]
                /\ last' = [NoOp EXCEPT !.op = "updateArticle", !.ok = TRUE]
       ELSE /\ last' = [NoOp EXCEPT !.op = "updateArticle", !.thrown = TRUE]
            /\ UNCHANGED articles
    /\ UNCHANGED <<feeds, nextId, ingested, fetchVars, catVars, concVars>>

\* ArticleManager.markAsRead / markAsUnread / toggleStar
markAsRead(articleId)   == updateArticle(articleId, "isRead", TRUE)
markAsUnread(articleId) == updateArticle(articleId, "isRead", FALSE)
toggleStar(articleId) ==
    /\ \E k \in 1..Len(articles) : articles[k].id = articleId
    /\ LET article == articles[CHOOSE k \in 1..Len(articles) : articles[k].id = articleId]
       IN  updateArticle(articleId, "isStarred", ~article.isStarred)

\* refreshAllFeeds() while exactly one stored feed is active: its one
\* refreshFeed call, and Promise.all over that one promise.
refreshAllFeedsOverOne(fetches, items) ==
    /\ Len(ActiveIds(feeds)) = 1
    /\ refreshFeed(ActiveIds(feeds)[1], fetches, items)

DocsIf(fetches) == IF fetches THEN Docs ELSE {<< >>}

SeqNext ==
    \/ \E url \in Urls, validates \in BOOLEAN, fetches \in BOOLEAN :
         \E items \in DocsIf(validates /\ fetches) : addFeed(url, validates, fetches, items)
    \/ \E feedId \in FeedIds(feeds) \cup {AbsentId}, fetches \in BOOLEAN :
         \E items \in DocsIf(fetches) : refreshFeed(feedId, fetches, items)
    \/ \E feedId \in FeedIds(feeds) \cup {AbsentId} : removeFeed(feedId)
    \/ \E feedId \in FeedIds(feeds) \cup {AbsentId}, payload \in Payloads :
         updateFeed(feedId, payload)
    \/ \E fetches \in BOOLEAN :
         \E items \in DocsIf(fetches) : refreshAllFeedsOverOne(fetches, items)

(***************************************************************************)
(* FeedManager: refreshFeed calls in flight together (ConcSpec)            *)
(*                                                                         *)
(* A call is suspended at each await: the storage reads and writes (each   *)
(* one atomic call of the storage collaborator) and the fetch. Between two *)
(* awaits a call runs alone.                                               *)
(***************************************************************************)

\* Number of refreshFeed calls in a run, and of feeds they run over.
MaxProcs == 2
MaxFeeds == 2

\* Largest number of items in a document fetched by a refreshFeed call in flight.
MaxConcItems == 1

ConcDocs == SeqsUpTo({Plain(link) : link \in {"A", "B"}}, MaxConcItems)

Proc(feedId, inBatch) ==
    [feedId |-> feedId, inBatch |-> inBatch, pc |-> "loadFeeds",
     feeds |-> << >>, parsed |-> << >>, existingArticles |-> << >>,
     newArticles |-> << >>, success |-> FALSE, thrown |-> FALSE,
     newArticleCount |-> 0, fetch |-> "none"]

\* The RefreshResult a refreshFeed call returned.
Result(p) == [feedId |-> p.feedId, success |-> p.success, newArticleCount |-> p.newArticleCount]

InFlight == {i \in 1..Len(procs) : procs[i].pc # "done"}

\* A standalone refreshFeed(feedId) call is made.
CallRefreshFeed(feedId) ==
    /\ Len(procs) < MaxProcs
    /\ procs' = Append(procs, Proc(feedId, FALSE))
    /\ UNCHANGED <<storeVars, mgrVars, batch, fetchVars, catVars, call>>

\* refreshAllFeeds(): loadFeeds, filter, and one refreshFeed call per active feed.
CallRefreshAllFeeds ==
    /\ batch.state = "none"
    /\ Len(procs) + Len(ActiveIds(feeds)) <= MaxProcs
    /\ LET ids == ActiveIds(feeds)
       IN  /\ procs' = procs \o [i \in 1..Len(ids) |-> Proc(ids[i], TRUE)]
           /\ batch' = [NoBatch EXCEPT !.state = "running", !.feeds = feeds,
                                       !.articles = articles,
                                       !.members = (Len(procs) + 1)..(Len(procs) + Len(ids))]
    /\ UNCHANGED <<storeVars, mgrVars, fetchVars, catVars, call>>

\* const feeds = await this.storage.loadFeeds(); find; throw if absent; then the
\* call of parser.parseFeed(feed.url).
LoadFeeds(i) ==
    /\ procs[i].pc = "loadFeeds"
    /\ procs' = [procs EXCEPT ![i] =
                    IF HasFeed(feeds, procs[i].feedId)
                    THEN [@ EXCEPT !.feeds = feeds, !.pc = "parseFeed"]
                    ELSE [@ EXCEPT !.feeds = feeds, !.pc = "done", !.thrown = TRUE]]
    /\ UNCHANGED <<storeVars, mgrVars, batch, fetchVars, catVars, call>>

\* await this.parser.parseFeed(feed.url) settles; on a rejection the catch block
\* returns {success: false, newArticleCount: 0}.
ParseFeedSettles(i, fetches, items) ==
    /\ procs[i].pc = "parseFeed"
    /\ procs' = [procs EXCEPT ![i] =
                    IF fetches
                    THEN [@ EXCEPT !.parsed = parseArticles(items), !.pc = "loadArticles",
                                   !.fetch = "resolved"]
                    ELSE [@ EXCEPT !.pc = "done", !.fetch = "rejected"]]
    /\ UNCHANGED <<storeVars, mgrVars, batch, fetchVars, catVars, call>>

\* const existingArticles = await this.storage.loadArticles(); the filter and the
\* map that builds newArticles; then the call of saveArticles, or of saveFeeds
\* when there is nothing new.
LoadArticles(i) ==
    /\ procs[i].pc = "loadArticles"
    /\ LET newParsed   == newParsedArticles(procs[i].parsed, articles, procs[i].feedId)
           newArticles == ToArticles(newParsed, procs[i].feedId, nextId)
       IN  /\ procs' = [procs EXCEPT ![i] =
                           [@ EXCEPT !.existingArticles = articles,
                                     !.newArticles = newArticles,
                                     !.pc = IF Len(newArticles) > 0 THEN "saveArticles"
                                                                    ELSE "saveFeeds"]]
           /\ nextId' = nextId + Len(newArticles)
    /\ UNCHANGED <<storeVars, clock, last, ingested, batch, fetchVars, catVars, call>>

\* existingArticles.push(...newArticles); await this.storage.saveArticles(existingArticles)
SaveArticles(i) ==
    /\ procs[i].pc = "saveArticles"
    /\ articles' = procs[i].existingArticles \o procs[i].newArticles
    /\ procs' = [procs EXCEPT ![i].pc = "saveFeeds"]
    /\ UNCHANGED <<feeds, mgrVars, batch, fetchVars, catVars, call>>

\* The update of feed in the call's own feeds array, saveFeeds(feeds), and the
\* return of {success: true, newArticleCount}.
SaveFeeds(i) ==
    /\ procs[i].pc = "saveFeeds"
    /\ clock' = clock + 1
    /\ feeds' = RefreshedFeeds(procs[i].feeds, procs[i].feedId,
                               Len(procs[i].newArticles), clock')
    /\ procs' = [procs EXCEPT ![i] =
                    [@ EXCEPT !.pc = "done", !.success = TRUE,
                              !.newArticleCount = Len(procs[i].newArticles)]]
    /\ UNCHANGED <<articles, nextId, last, ingested, batch, fetchVars, catVars, call>>

\* Promise.all(refreshPromises) settles: it resolves with the results once every
\* call has returned, and rejects when one has thrown.
RefreshAllSettles ==
    /\ batch.state = "running"
    /\ \/ /\ \A i \in batch.members : procs[i].pc = "done" /\ ~procs[i].thrown
          /\ batch' = [batch EXCEPT !.state = "returned",
                                    !.returned =
                                        [length   |-> Cardinality(batch.members),
                                         elements |-> [k \in 1..Cardinality(batch.members) |->
                                             Result(procs[NthOf(batch.members, k)])]]]
       \/ /\ \E i \in batch.members : procs[i].pc = "done" /\ procs[i].thrown
          /\ batch' = [batch EXCEPT !.state = "raised"]
    /\ UNCHANGED <<storeVars, mgrVars, procs, fetchVars, catVars, call>>

\* addFeed of a valid url whose fetches succeed, while no call is in flight.
AddFeedBetweenCalls(url, items) ==
    /\ InFlight = {}
    /\ batch.state = "none"
    /\ Len(feeds) < MaxFeeds
    /\ addFeed(url, TRUE, TRUE, items)

\* updateFeed of a stored feed's isActive, while no call is in flight.
UpdateFeedBetweenCalls(feedId, isActive) ==
    /\ InFlight = {}
    /\ batch.state = "none"
    /\ updateFeed(feedId, Payload({"isActive"}, isActive))

\* removeFeed of a stored feed, run from start to end while every call in
\* flight is yet to load the feeds or waits for its fetch.
RemoveFeedDuringCalls(feedId) ==
    /\ InFlight # {}
    /\ \A i \in InFlight : procs[i].pc \in {"loadFeeds", "parseFeed"}
    /\ removeFeed(feedId)

\* markAsRead, markAsUnread or toggleStar of a stored article, run from start
\* to end between two steps of the calls in flight.
ArticleUpdateDuringCalls(method, articleId) ==
    /\ InFlight # {}
    /\ CASE method = "markAsRead"   -> markAsRead(articleId)
         [] method = "markAsUnread" -> markAsUnread(articleId)
         [] method = "toggleStar"   -> toggleStar(articleId)

ConcNext ==
    \/ \E articleId \in {articles[k].id : k \in 1..Len(articles)},
          method \in {"markAsRead", "markAsUnread", "toggleStar"} :
         ArticleUpdateDuringCalls(method, articleId)
    \/ \E url \in {u \in Urls : isValidUrl(u)}, items \in ConcDocs : AddFeedBetweenCalls(url, items)
    \/ \E feedId \in FeedIds(feeds), isActive \in BOOLEAN : UpdateFeedBetweenCalls(feedId, isActive)
    \/ \E feedId \in FeedIds(feeds) : RemoveFeedDuringCalls(feedId)
    \/ \E feedId \in FeedIds(feeds) \cup {AbsentId} : CallRefreshFeed(feedId)
    \/ CallRefreshAllFeeds
    \/ \E i \in 1..Len(procs) : LoadFeeds(i)
    \/ \E i \in 1..Len(procs), fetches \in BOOLEAN :
         \E items \in (IF fetches THEN ConcDocs ELSE {<< >>}) : ParseFeedSettles(i, fetches, items)
    \/ \E i \in 1..Len(procs) : LoadArticles(i)
    \/ \E i \in 1..Len(procs) : SaveArticles(i)
    \/ \E i \in 1..Len(procs) : SaveFeeds(i)
    \/ RefreshAllSettles

\* A step of a refreshFeed call in flight.
RefreshStep ==
    \E i \in 1..Len(procs) :
        \/ LoadFeeds(i)
        \/ \E fetches \in BOOLEAN :
              \E items \in (IF fetches THEN ConcDocs ELSE {<< >>}) :
                  ParseFeedSettles(i, fetches, items)
        \/ LoadArticles(i)
        \/ SaveArticles(i)
        \/ SaveFeeds(i)

\* refreshAllFeeds and its calls, with removeFeed calls run meanwhile.
BatchNext ==
    \/ \E url \in {u \in Urls : isValidUrl(u)}, items \in ConcDocs : AddFeedBetweenCalls(url, items)
    \/ \E feedId \in FeedIds(feeds) : RemoveFeedDuringCalls(feedId)
    \/ CallRefreshAllFeeds
    \/ RefreshStep
    \/ RefreshAllSettles

\* The event loop runs every continuation whose promise has settled, and the
\* storage's and the fetch's promises settle (each fetch attempt times out).
FairBatchSpec ==
    Init /\ [][BatchNext]_vars /\ WF_vars(RefreshStep) /\ WF_vars(RefreshAllSettles)

(***************************************************************************)
(* FeedManager: refreshFeed calls in flight together, with updateFeed run  *)
(* between their steps (OverlapSpec)                                       *)
(***************************************************************************)

\* updateFeed of a stored feed's title or isActive, run from start to end
\* between two steps of the calls in flight.
UpdateFeedDuringCalls(feedId, payload) ==
    /\ InFlight # {}
    /\ updateFeed(feedId, payload)

OverlapNext ==
    \/ \E url \in {u \in Urls : isValidUrl(u)}, items \in ConcDocs : AddFeedBetweenCalls(url, items)
    \/ \E feedId \in FeedIds(feeds) : CallRefreshFeed(feedId)
    \/ CallRefreshAllFeeds
    \/ RefreshStep
    \/ RefreshAllSettles
    \/ \E feedId \in FeedIds(feeds),
          payload \in {Payload({"isActive"}, FALSE), Payload({"title"}, FALSE)} :
         UpdateFeedDuringCalls(feedId, payload)

OverlapSpec == Init /\ [][OverlapNext]_vars

(***************************************************************************)
(* FeedManager: one call run write by write (StepSpec)                     *)
(*                                                                         *)
(* One call at a time. Each of its two storage writes (the load before it  *)
(* included) is a step, and the storage collaborator may reject it.        *)
(***************************************************************************)

\* addFeed({url}) up to its first storage call: validateFeed, parseFeed and the
\* feed object.
CallAddFeed(url, validates, fetches, items) ==
    /\ call.pc = "done"
    /\ clock < MaxOps
    /\ clock' = clock + 1
    /\ IF ~isValidUrl(url) \/ ~validates \/ ~fetches
       THEN /\ call' = [NoCall EXCEPT !.op = "addFeed", !.thrown = TRUE,
                                      !.before = [feeds |-> feeds, articles |-> articles]]
            /\ UNCHANGED nextId
       ELSE /\ call' = [NoCall EXCEPT !.op = "addFeed", !.pc = "saveFeeds",
                                      !.feedId = nextId + 1,
                                      !.feed = NewFeed(nextId + 1, url, Len(items), clock'),
                                      !.parsed = parseArticles(items),
                                      !.before = [feeds |-> feeds, articles |-> articles]]
            /\ nextId' = nextId + 1
    /\ UNCHANGED <<feeds, articles, last, ingested, procs, batch, fetchVars, catVars>>

\* existingFeeds = loadFeeds(); push(feed); saveFeeds(existingFeeds), then the
\* map that builds the articles; stored: whether the storage accepts the write.
AddFeedSavesFeeds(stored) ==
    /\ call.op = "addFeed" /\ call.pc = "saveFeeds"
    /\ IF stored
       THEN /\ feeds' = Append(feeds, call.feed)
            /\ call' = [call EXCEPT !.pc = IF Len(call.parsed) > 0 THEN "saveArticles"
                                                                   ELSE "done"]
       ELSE /\ call' = [call EXCEPT !.pc = "done", !.thrown = TRUE]
            /\ UNCHANGED feeds
    /\ UNCHANGED <<articles, mgrVars, procs, batch, fetchVars, catVars>>

\* existingArticles = loadArticles(); push(...articles); saveArticles; return feed.
AddFeedSavesArticles(stored) ==
    /\ call.op = "addFeed" /\ call.pc = "saveArticles"
    /\ nextId' = nextId + Len(call.parsed)
    /\ IF stored
       THEN /\ articles' = articles \o ToArticles(call.parsed, call.feed.id, nextId)
            /\ call' = [call EXCEPT !.pc = "done"]
       ELSE /\ call' = [call EXCEPT !.pc = "done", !.thrown = TRUE]
            /\ UNCHANGED articles
    /\ UNCHANGED <<feeds, clock, last, ingested, procs, batch, fetchVars, catVars>>

\* removeFeed(feedId) up to its first write: loadFeeds, filter, throw if absent.
CallRemoveFeed(feedId) ==
    /\ call.pc = "done"
    /\ clock < MaxOps
    /\ clock' = clock + 1
    /\ call' = IF HasFeed(feeds, feedId)
               THEN [NoCall EXCEPT !.op = "removeFeed", !.pc = "saveFeeds", !.feedId = feedId,
                                   !.before = [feeds |-> feeds, articles |-> articles]]
               ELSE [NoCall EXCEPT !.op = "removeFeed", !.thrown = TRUE, !.feedId = feedId,
                                   !.before = [feeds |-> feeds, articles |-> articles]]
    /\ UNCHANGED <<feeds, articles, nextId, last, ingested, procs, batch, fetchVars, catVars>>

\* saveFeeds(filteredFeeds)
RemoveFeedSavesFeeds(stored) ==
    /\ call.op = "removeFeed" /\ call.pc = "saveFeeds"
    /\ IF stored
       THEN /\ feeds' = SelectSeq(feeds, LAMBDA f : f.id # call.feedId)
            /\ call' = [call EXCEPT !.pc = "saveArticles"]
       ELSE /\ call' = [call EXCEPT !.pc = "done", !.thrown = TRUE]
            /\ UNCHANGED feeds
    /\ UNCHANGED <<articles, mgrVars, procs, batch, fetchVars, catVars>>

\* articles = loadArticles(); filter; saveArticles(filteredArticles)
RemoveFeedSavesArticles(stored) ==
    /\ call.op = "removeFeed" /\ call.pc = "saveArticles"
    /\ IF stored
       THEN /\ articles' = SelectSeq(articles, LAMBDA a : a.feedId # call.feedId)
            /\ call' = [call EXCEPT !.pc = "done"]
       ELSE /\ call' = [call EXCEPT !.pc = "done", !.thrown = TRUE]
            /\ UNCHANGED articles
    /\ UNCHANGED <<feeds, mgrVars, procs, batch, fetchVars, catVars>>

\* refreshFeed(feedId) up to its first write: loadFeeds, find, throw if absent;
\* parseFeed; loadArticles, the filter and the map that builds newArticles.
\* call.parsed holds the parsed articles that are new.
CallRefreshFeedAlone(feedId, fetches, items) ==
    /\ call.pc = "done"
    /\ clock < MaxOps
    /\ clock' = clock + 1
    /\ IF ~HasFeed(feeds, feedId)
       THEN /\ call' = [NoCall EXCEPT !.op = "refreshFeed", !.thrown = TRUE, !.feedId = feedId,
                                      !.before = [feeds |-> feeds, articles |-> articles]]
            /\ last' = [NoOp EXCEPT !.op = "refreshFeed", !.feedId = feedId, !.thrown = TRUE]
            /\ UNCHANGED nextId
       ELSE IF ~fetches
       THEN /\ call' = [NoCall EXCEPT !.op = "refreshFeed", !.feedId = feedId,
                                      !.before = [feeds |-> feeds, articles |-> articles]]
            /\ last' = [NoOp EXCEPT !.op = "refreshFeed", !.feedId = feedId,
                                    !.fetch = "rejected", !.error = FetchErrorMessage]
            /\ UNCHANGED nextId
       ELSE LET newParsed == newParsedArticles(parseArticles(items), articles, feedId)
            IN  /\ call' = [NoCall EXCEPT !.op = "refreshFeed", !.feedId = feedId,
                                          !.pc = IF Len(newParsed) > 0 THEN "saveArticles"
                                                                       ELSE "saveFeeds",
                                          !.parsed = newParsed,
                                          !.before = [feeds |-> feeds, articles |-> articles]]
                /\ nextId' = nextId + Len(newParsed)
                /\ UNCHANGED last
    /\ UNCHANGED <<feeds, articles, ingested, procs, batch, fetchVars, catVars>>

\* error.message of the error a storage write rejected with.
StorageErrorMessage == "message of the error setItem threw"

\* existingArticles.push(...newArticles); saveArticles(existingArticles); on a
\* rejection the catch block returns {success: false, newArticleCount: 0}.
RefreshFeedSavesArticles(stored) ==
    /\ call.op = "refreshFeed" /\ call.pc = "saveArticles"
    /\ IF stored
       THEN /\ articles' = articles \o ToArticles(call.parsed, call.feedId,
                                                   nextId - Len(call.parsed))
            /\ call' = [call EXCEPT !.pc = "saveFeeds"]
            /\ UNCHANGED last
       ELSE /\ call' = [call EXCEPT !.pc = "done"]
            /\ last' = [NoOp EXCEPT !.op = "refreshFeed", !.feedId = call.feedId,
                                    !.fetch = "resolved", !.error = StorageErrorMessage]
            /\ UNCHANGED articles
    /\ UNCHANGED <<feeds, nextId, clock, ingested, procs, batch, fetchVars, catVars>>

\* The update of the feed, saveFeeds(feeds) and the return of {success: true,
\* newArticleCount}; on a rejection the catch block returns {success: false,
\* newArticleCount: 0}.
RefreshFeedSavesFeeds(stored) ==
    /\ call.op = "refreshFeed" /\ call.pc = "saveFeeds"
    /\ call' = [call EXCEPT !.pc = "done"]
    /\ IF stored
       THEN /\ feeds' = RefreshedFeeds(feeds, call.feedId, Len(call.parsed), clock)
            /\ last' = [NoOp EXCEPT !.op = "refreshFeed", !.feedId = call.feedId, !.ok = TRUE,
                                    !.fetch = "resolved",
                                    !.newArticleCount = Len(call.parsed)]
       ELSE /\ last' = [NoOp EXCEPT !.op = "refreshFeed", !.feedId = call.feedId,
                                    !.fetch = "resolved", !.error = StorageErrorMessage]
            /\ UNCHANGED feeds
    /\ UNCHANGED <<articles, nextId, clock, ingested, procs, batch, fetchVars, catVars>>

StepNext ==
    \/ \E url \in Urls, validates \in BOOLEAN, fetches \in BOOLEAN :
         \E items \in DocsIf(validates /\ fetches) : CallAddFeed(url, validates, fetches, items)
    \/ \E stored \in BOOLEAN : AddFeedSavesFeeds(stored)
    \/ \E stored \in BOOLEAN : AddFeedSavesArticles(stored)
    \/ \E feedId \in FeedIds(feeds) \cup {AbsentId} : CallRemoveFeed(feedId)
    \/ \E stored \in BOOLEAN : RemoveFeedSavesFeeds(stored)
    \/ \E stored \in BOOLEAN : RemoveFeedSavesArticles(stored)
    \/ \E feedId \in FeedIds(feeds) \cup {AbsentId}, fetches \in BOOLEAN :
         \E items \in DocsIf(fetches) : CallRefreshFeedAlone(feedId, fetches, items)
    \/ \E stored \in BOOLEAN : RefreshFeedSavesArticles(stored)
    \/ \E stored \in BOOLEAN : RefreshFeedSavesFeeds(stored)

(***************************************************************************)
(* ArticleManager and FeedManager: operations run one after the other      *)
(* (ArticleSpec)                                                           *)
(***************************************************************************)

\* ArticleManager.markFeedAsRead(feedId)
markFeedAsRead(feedId) ==
    /\ articles' = [k \in 1..Len(articles) |->
                        IF articles[k].feedId = feedId /\ ~articles[k].isRead
                        THEN [articles[k] EXCEPT !.isRead = TRUE]
                        ELSE articles[k]]
    /\ last' = [NoOp EXCEPT !.op = "markFeedAsRead", !.feedId = feedId, !.ok = TRUE]
    /\ UNCHANGED <<feeds, nextId, clock, ingested, fetchVars, catVars, concVars>>

\* ArticleManager.markAllAsRead()
markAllAsRead ==
    /\ articles' = [k \in 1..Len(articles) |->
                        IF ~articles[k].isRead
                        THEN [articles[k] EXCEPT !.isRead = TRUE]
                        ELSE articles[k]]
    /\ last' = [NoOp EXCEPT !.op = "markAllAsRead", !.ok = TRUE]
    /\ UNCHANGED <<feeds, nextId, clock, ingested, fetchVars, catVars, concVars>>

\* ArticleManager.cleanupOldArticles(maxAgeInDays). old: the ids of the stored
\* articles whose publishedAt is not after the cutoff date.
cleanupOldArticles(old) ==
    /\ articles' = SelectSeq(articles, LAMBDA a : a.isStarred \/ a.id \notin old)
    /\ last' = [NoOp EXCEPT !.op = "cleanupOldArticles", !.ok = TRUE]
    /\ UNCHANGED <<feeds, nextId, clock, ingested, fetchVars, catVars, concVars>>

\* The documents fetched: up to MaxItems items linking A or B.
ReadDocs == SeqsUpTo({Plain(link) : link \in {"A", "B"}}, MaxItems)

ArticleIds(arts) == {arts[k].id : k \in 1..Len(arts)}

ArticleNext ==
    \/ \E items \in ReadDocs :
         Len(feeds) < MaxFeeds /\ addFeed("https://a.example/feed", TRUE, TRUE, items)
    \/ \E feedId \in FeedIds(feeds), fetches \in BOOLEAN :
         \E items \in (IF fetches THEN ReadDocs ELSE {<< >>}) : refreshFeed(feedId, fetches, items)
    \/ \E articleId \in ArticleIds(articles) : markAsRead(articleId)
    \/ \E articleId \in ArticleIds(articles) : markAsUnread(articleId)
    \/ \E feedId \in FeedIds(feeds) : markFeedAsRead(feedId)
    \/ markAllAsRead
    \/ \E old \in SUBSET ArticleIds(articles) : cleanupOldArticles(old)

ArticleSpec == Init /\ [][ArticleNext]_vars

(***************************************************************************)
(* CategoryManager: operations run one after the other (CategorySpec)      *)
(***************************************************************************)

\* Number of categories created in a run.
MaxCategories == 2

\* generateId(): the n-th id CategoryManager hands out; an id it never does.
CategoryId(n)    == <<"c1", "c2", "c3", "c4">>[n]
AbsentCategoryId == "c0"

\* The names tried, and String.prototype.toLowerCase on each.
Names == {"News", "news", "Tech"}

toLowerCase(name) ==
    CASE name = "News" -> "news"
      [] name = "news" -> "news"
      [] name = "Tech" -> "tech"

\* An undefined color. (icon is handled as color is, and left out.)
NoColor == "undefined"

NewCategory(id, name, color, order) ==
    [id |-> id, name |-> name, color |-> color, order |-> order,
     feedCount |-> 0, unreadCount |-> 0]

CategoryIds(cs) == {cs[k].id : k \in 1..Len(cs)}

\* categories.findIndex(c => c.id === id)
CategoryIndex(cs, id) == CHOOSE k \in 1..Len(cs) : cs[k].id = id

\* categories.find(c => c.name.toLowerCase() === payload.name.toLowerCase())
NameExists(cs, name) ==
    \E k \in 1..Len(cs) : toLowerCase(cs[k].name) = toLowerCase(name)

\* NameTakenByOther comparing the names as they are written.
NameTakenByOther_Exact(cs, id, name) ==
    \E k \in 1..Len(cs) : cs[k].id # id /\ cs[k].name = name

\* categories.find(c => c.id !== payload.id &&
\*                      c.name.toLowerCase() === name.toLowerCase())
NameTakenByOther(cs, id, name) ==
    \E k \in 1..Len(cs) : cs[k].id # id /\ toLowerCase(cs[k].name) = toLowerCase(name)

\* A CategoryUpdatePayload: given holds the names of the properties that are
\* not undefined.
CategoryPayload(given, name) ==
    [given |-> given, name |-> name, color |-> "blue", order |-> 5]

CategoryPayloads ==
    {CategoryPayload(given, name) : given \in SUBSET {"name", "color", "order"}, name \in Names}
        \ {CategoryPayload(given, name) : given \in SUBSET {"color", "order"},
                                           name \in Names \ {"News"}}

\* updateCategory's assignments to the category it found.
UpdatedCategory(category, payload) ==
    [category EXCEPT !.name  = IF "name" \in payload.given THEN payload.name ELSE @,
                     !.color = IF "color" \in payload.given THEN payload.color ELSE @,
                     !.order = IF "order" \in payload.given THEN payload.order ELSE @]

\* feeds.map(feed => feed.categoryId === categoryId
\*                       ? {...feed, categoryId: reassignTo || undefined} : feed)
ReassignedFeeds(fs, categoryId, reassignTo) ==
    [k \in 1..Len(fs) |->
        IF fs[k].categoryId = categoryId
        THEN [fs[k] EXCEPT !.categoryId = reassignTo]
        ELSE fs[k]]

\* createCategory({name, color})
createCategory(name, color) ==
    /\ catIds < MaxCategories
    /\ IF NameExists(categories, name)
       THEN /\ last' = [NoOp EXCEPT !.op = "createCategory", !.thrown = TRUE,
                                    !.error = "already exists"]
            /\ UNCHANGED catVars
       ELSE /\ categories' = Append(categories,
                                NewCategory(CategoryId(catIds + 1), name, color, Len(categories)))
            /\ catIds' = catIds + 1
            /\ last' = [NoOp EXCEPT !.op = "createCategory", !.ok = TRUE,
                                    !.categoryId = CategoryId(catIds + 1)]
    /\ UNCHANGED <<storeVars, nextId, clock, ingested, fetchVars, concVars>>

\* updateCategory({id, ...payload})
updateCategory(id, payload) ==
    /\ IF id \notin CategoryIds(categories)
       THEN /\ last' = [NoOp EXCEPT !.op = "updateCategory", !.thrown = TRUE,
                                    !.categoryId = id, !.error = "not found"]
            /\ UNCHANGED categories
       ELSE LET categoryIndex == CategoryIndex(categories, id)
                category      == categories[categoryIndex]
            IN  IF /\ "name" \in payload.given
                   /\ payload.name # category.name
                   /\ NameTakenByOther(categories, id, payload.name)
                THEN /\ last' = [NoOp EXCEPT !.op = "updateCategory", !.thrown = TRUE,
                                             !.categoryId = id, !.error = "already exists"]
                     /\ UNCHANGED categories
                ELSE /\ categories' = [categories EXCEPT ![categoryIndex] =
                                           UpdatedCategory(category, payload)]
                     /\ last' = [NoOp EXCEPT !.op = "updateCategory", !.ok = TRUE,
                                             !.categoryId = id]
    /\ UNCHANGED <<storeVars, nextId, clock, ingested, fetchVars, concVars, catIds>>

\* deleteCategory(categoryId, reassignTo); reassignTo is NoCategory when the
\* argument is not given. Both writes of its Promise.all resolve.
deleteCategory(categoryId, reassignTo) ==
    /\ IF categoryId \notin CategoryIds(categories)
       THEN /\ last' = [NoOp EXCEPT !.op = "deleteCategory", !.thrown = TRUE,
                                    !.categoryId = categoryId, !.reassignTo = reassignTo,
                                    !.error = "not found"]
            /\ UNCHANGED <<categories, feeds>>
       ELSE IF reassignTo # NoCategory /\ reassignTo \notin CategoryIds(categories)
       THEN /\ last' = [NoOp EXCEPT !.op = "deleteCategory", !.thrown = TRUE,
                                    !.categoryId = categoryId, !.reassignTo = reassignTo,
                                    !.error = "target not found"]
            /\ UNCHANGED <<categories, feeds>>
       ELSE /\ feeds' = ReassignedFeeds(feeds, categoryId, reassignTo)
            /\ categories' = SelectSeq(categories, LAMBDA c : c.id # categoryId)
            /\ last' = [NoOp EXCEPT !.op = "deleteCategory", !.ok = TRUE,
                                    !.categoryId = categoryId, !.reassignTo = reassignTo]
    /\ UNCHANGED <<articles, nextId, clock, ingested, fetchVars, concVars, catIds>>

\* addFeed of a valid url whose fetches succeed.
AddFeedToCategorize(url, items) ==
    /\ Len(feeds) < MaxFeeds
    /\ addFeed(url, TRUE, TRUE, items)

\* updateFeed({id: feedId, categoryId})
UpdateFeedCategory(feedId, categoryId) ==
    updateFeed(feedId, [Payload({"categoryId"}, FALSE) EXCEPT !.categoryId = categoryId])

CategoryNext ==
    \/ \E name \in Names, color \in {NoColor, "red"} : createCategory(name, color)
    \/ \E id \in CategoryIds(categories) \cup {AbsentCategoryId},
          payload \in CategoryPayloads : updateCategory(id, payload)
    \/ \E categoryId \in CategoryIds(categories) \cup {AbsentCategoryId},
          reassignTo \in CategoryIds(categories) \cup {NoCategory, AbsentCategoryId} :
         deleteCategory(categoryId, reassignTo)
    \/ \E url \in {"https://a.example/feed"}, items \in ConcDocs : AddFeedToCategorize(url, items)
    \/ \E feedId \in FeedIds(feeds), categoryId \in CategoryIds(categories) :
         UpdateFeedCategory(feedId, categoryId)

CategorySpec == Init /\ [][CategoryNext]_vars
StepSpec  == Init /\ [][StepNext]_vars
FetchSpec == Init /\ [][FetchNext]_vars
SeqSpec   == Init /\ [][SeqNext]_vars
ConcSpec  == Init /\ [][ConcNext]_vars

(***************************************************************************)
(* Properties                                                              *)
(***************************************************************************)

\* The stored articles of feed feedId whose id is one of ids.
StoredOf(feedId, ids) ==
    {k \in 1..Len(articles) : articles[k].feedId = feedId /\ articles[k].id \in ids}

IdsOf(arts) == {arts[k].id : k \in 1..Len(arts)}

\* C1: once refreshAllFeeds has returned and no refreshFeed call is in flight,
\* every call of the batch that returned success: true reports as
\* newArticleCount the number of articles it appended that the stored article
\* collection holds.
C1_CountIsWhatIsStored ==
    (batch.state = "returned" /\ InFlight = {}) =>
        \A i \in batch.members :
            procs[i].success =>
                procs[i].newArticleCount =
                    Cardinality(StoredOf(procs[i].feedId, IdsOf(procs[i].newArticles)))

\* C2: once refreshAllFeeds over two or more active feeds has returned, the
\* stored record of every feed whose call returned success: true has
\* unreadCount and totalCount equal to their values when the batch loaded the
\* feeds plus the call's newArticleCount, and a later lastFetched.
C2_NoCounterUpdateLost ==
    (batch.state = "returned" /\ Cardinality(batch.members) >= 2) =>
        \A i \in batch.members :
            procs[i].success =>
                /\ HasFeed(feeds, procs[i].feedId)
                /\ LET before == FindFeed(batch.feeds, procs[i].feedId)
                       after  == FindFeed(feeds, procs[i].feedId)
                   IN  /\ after.unreadCount = before.unreadCount + procs[i].newArticleCount
                       /\ after.totalCount = before.totalCount + procs[i].newArticleCount
                       /\ after.lastFetched > before.lastFetched

\* C3: no two stored articles have the same feedId and the same url.
C3_OneArticlePerKey ==
    \A i, j \in 1..Len(articles) :
        (i < j /\ articles[i].feedId = articles[j].feedId) => articles[i].url # articles[j].url

\* A step that is a refreshFeed call returning success: true.
RefreshSucceeds == clock' = clock + 1 /\ last'.op = "refreshFeed" /\ last'.ok

\* The urls of the stored articles of feedId, and what a step appended.
UrlsOf(arts, feedId) == {arts[k].url : k \in {n \in 1..Len(arts) : arts[n].feedId = feedId}}
Appended == SubSeq(articles', Len(articles) + 1, Len(articles'))

\* C4: a refreshFeed that succeeds on the document that the same feed's last
\* successful refreshFeed or addFeed got, with no operation in between, returns
\* newArticleCount 0 and leaves the article collection and the feed's
\* unreadCount and totalCount as they were.
C4_SecondRefreshAddsNothing ==
    [][(/\ RefreshSucceeds
        /\ last.ok /\ last.op \in {"addFeed", "refreshFeed"}
        /\ last'.feedId = last.feedId /\ last'.items = last.items)
       => (/\ last'.newArticleCount = 0
           /\ articles' = articles
           /\ FindFeed(feeds', last'.feedId).unreadCount = FindFeed(feeds, last.feedId).unreadCount
           /\ FindFeed(feeds', last'.feedId).totalCount = FindFeed(feeds, last.feedId).totalCount)]_vars

C4_RefreshedTwice ==
    /\ last.op = "refreshFeed" /\ last.ok /\ last.again = "refreshFeed"
    /\ Len(last.items) = 2 /\ Len(articles) = 2

C4_RefreshedAfterAdd ==
    /\ last.op = "refreshFeed" /\ last.ok /\ last.again = "addFeed"
    /\ Len(last.items) = 2 /\ Len(articles) = 2

\* C5: a successful refreshFeed appends, for the parsed articles whose url no
\* stored article of the feed has, one article each, in the order of the
\* document, and nothing else; stored A, B and parsed A, B, C append C alone.
KeptIndexes(parsed, urls) == {i \in 1..Len(parsed) : parsed[i].url \notin urls}

C5_ReconcileIsOrderedFilter ==
    [][RefreshSucceeds =>
        LET parsed == parseArticles(last'.items)
            kept   == KeptIndexes(parsed, UrlsOf(articles, last'.feedId))
        IN  /\ Len(articles') = Len(articles) + Cardinality(kept)
            /\ SubSeq(articles', 1, Len(articles)) = articles
            /\ \A k \in 1..Len(Appended) :
                  /\ Appended[k].url = parsed[NthOf(kept, k)].url
                  /\ Appended[k].feedId = last'.feedId]_vars

C5_StoredABParsedABC ==
    /\ last.op = "refreshFeed" /\ last.ok /\ last.items = ABCDoc
    /\ last.newArticleCount = 1
    /\ [k \in 1..Len(articles) |-> articles[k].url] = <<"A", "B", "C">>
    /\ \A k \in 1..Len(articles) : articles[k].feedId = last.feedId

\* C6: a successful refreshFeed of a feed appends an article for every parsed
\* url that no stored article of that feed has, whatever the articles of the
\* other feeds are.
C6_DedupScopedToFeed ==
    [][RefreshSucceeds =>
        \A i \in 1..Len(last'.items) :
            LET url == parseArticles(last'.items)[i].url
            IN  url \notin UrlsOf(articles, last'.feedId) =>
                    \E k \in 1..Len(Appended) :
                        Appended[k].url = url /\ Appended[k].feedId = last'.feedId]_vars

\* The refreshed feed got an article whose url an older article of another feed has.
C6_SameUrlInOtherFeed ==
    /\ last.op = "refreshFeed" /\ last.ok /\ last.newArticleCount > 0
    /\ \E a, b \in 1..Len(articles) :
          /\ articles[a].feedId # last.feedId
          /\ articles[b].feedId = last.feedId
          /\ articles[a].url = articles[b].url
          /\ articles[a].id <= nextId - last.newArticleCount
          /\ articles[b].id > nextId - last.newArticleCount

\* C7: a successful refreshFeed appends no article for a parsed article whose
\* guid is the guid of a parsed article the feed has already ingested.
C7_KnownGuidNotIngestedAgain ==
    [][RefreshSucceeds =>
        \A i \in 1..Len(last'.items) :
            LET p == parseArticles(last'.items)[i]
            IN  (p.guid # NoGuid /\ <<last'.feedId, p.guid>> \in ingested) =>
                    \A k \in 1..Len(Appended) : Appended[k].url # p.url]_vars

\* An error that carries an HTTP status and nothing else.
HttpError(status) == [code |-> NoCode, status |-> status, message |-> "Status code"]

Failed(k) == history[k] # Fetched
TypeOf(k) == parseError(history[k]).type

\* C8: a fetch of a valid url makes at least one and at most maxRetries
\* attempts, stops at its first successful attempt and returns that document;
\* while every attempt fails with status 500 it goes on to the maxRetries-th
\* attempt, so 500, 500, success returns the document after exactly 3 attempts;
\* after a 404 on attempt 1 there is no second attempt.
C8_BoundedRetry ==
    /\ Len(history) <= maxRetries
    /\ \A k \in 1..Len(history) : ~Failed(k) => (k = Len(history) /\ fpc = "done" /\ fres.ok)
    /\ (Len(history) >= 1 /\ history[1] = HttpError(404)) => (Len(history) = 1 /\ fpc = "done")
    /\ (fpc = "done" /\ isValidUrl(furl)) =>
          /\ Len(history) >= 1
          /\ fres.ok <=> ~Failed(Len(history))
          /\ (\A k \in 1..Len(history) : history[k] = HttpError(500)) => Len(history) = maxRetries
          /\ (Len(history) = 3 /\ history[1] = HttpError(500) /\ history[2] = HttpError(500)
                /\ ~Failed(3)) => fres.ok

C8_SucceedsOnThirdAttempt ==
    /\ fpc = "done" /\ fop = "parseFeed" /\ fres.ok
    /\ history = <<HttpError(500), HttpError(500), Fetched>>

\* C9: no attempt follows an attempt that failed with an error classified
\* PARSE_ERROR, NOT_FOUND or ACCESS_DENIED: the call is over.
C9_NonRetryableTypesAbort ==
    \A k \in 1..Len(history) :
        (Failed(k) /\ TypeOf(k) \in {PARSE_ERROR, NOT_FOUND, ACCESS_DENIED}) =>
            (k = Len(history) /\ fpc = "done")

\* C10: a call never ends on an attempt numbered below maxRetries that failed
\* with an error classified NETWORK_ERROR, TIMEOUT_ERROR or SERVER_ERROR.
C10_RetryableTypesRetried ==
    (fpc = "done" /\ Len(history) >= 1 /\ Len(history) < maxRetries /\ Failed(Len(history))) =>
        TypeOf(Len(history)) \notin {NETWORK_ERROR, TIMEOUT_ERROR, SERVER_ERROR}

\* The type the error taxonomy gives an error, first match first.
Classified(error) ==
    IF error.code \in {"ENOTFOUND", "ECONNREFUSED"} THEN NETWORK_ERROR
    ELSE IF error.code = "ETIMEDOUT" \/ Includes(error.message, "timeout") THEN TIMEOUT_ERROR
    ELSE IF error.status = 404 THEN NOT_FOUND
    ELSE IF error.status = 403 THEN ACCESS_DENIED
    ELSE IF error.status >= 500 /\ error.status <= 599 THEN SERVER_ERROR
    ELSE IF \/ Includes(error.message, "Invalid XML")
            \/ Includes(error.message, "Not a feed")
            \/ Includes(error.message, "parse") THEN PARSE_ERROR
    ELSE NETWORK_ERROR

\* C11: the type a failed call reports for the error that ended it is the
\* first match of the taxonomy, for every code, status and message: a network
\* code or timeout message before the HTTP status, the status before a parse
\* message, NETWORK_ERROR when nothing matches.
C11_FirstMatchWins ==
    (fpc = "done" /\ Len(history) >= 1 /\ Failed(Len(history))) =>
        fres.type = Classified(history[Len(history)])

\* A call ended by an error with a network code, a 404 and a parse message.
C11_NetworkCodeBeatsStatus ==
    /\ fpc = "done" /\ Len(history) >= 1
    /\ history[Len(history)] = [code |-> "ETIMEDOUT", status |-> 404, message |-> "Invalid XML"]
    /\ fres.type = TIMEOUT_ERROR

\* C12: a call whose maxRetries attempts all failed fails with the error of
\* the last attempt: lastError is that error, and the type and message
\* reported are the taxonomy's for it.
C12_LastErrorSurfaces ==
    (fpc = "done" /\ Len(history) = maxRetries /\ \A k \in 1..maxRetries : Failed(k)) =>
        /\ ~fres.ok
        /\ lastError = history[maxRetries]
        /\ fres.type = Classified(history[maxRetries])
        /\ fres.statusCode = history[maxRetries].status

\* Three failed attempts whose errors are of three different types.
C12_ThreeDifferentErrors ==
    /\ fpc = "done" /\ Len(history) = maxRetries
    /\ history[1] = HttpError(500)
    /\ history[2] = [code |-> "ECONNREFUSED", status |-> NoStatus, message |-> "Status code"]
    /\ history[3] = [code |-> NoCode, status |-> NoStatus, message |-> "socket timeout"]
    /\ fres.type = TIMEOUT_ERROR

\* The url is one "new URL" rejects or one whose protocol is not http(s).
NotHttpUrl(url) == UrlProtocol(url) \notin {"http:", "https:"}

\* C13: validateFeed of a url that is not a valid http or https url returns
\* isValid: false with errorType INVALID_URL and makes no parser.parseURL call.
C13_ValidateRejectsInvalidUrl ==
    (fop = "validateFeed" /\ NotHttpUrl(furl)) =>
        /\ fpc = "done"
        /\ ~fres.ok /\ fres.type = INVALID_URL
        /\ history = << >> /\ attempt = 0 /\ waits = 0

C13_ValidatedFtpUrl ==
    fop = "validateFeed" /\ furl = "ftp://c.example/feed" /\ fpc = "done"

\* C14: parseFeed of a url that is not a valid http or https url makes no
\* parser.parseURL call and throws an error of type INVALID_URL.
C14_ParseFeedRejectsInvalidUrl ==
    (fop = "parseFeed" /\ NotHttpUrl(furl)) =>
        /\ fpc = "done"
        /\ history = << >> /\ attempt = 0
        /\ ~fres.ok /\ fres.type = INVALID_URL

\* The call of the batch made for the k-th active feed.
MemberOf(k) == procs[NthOf(batch.members, k)]

\* C15: refreshAllFeeds never raises, and what it returns has one RefreshResult
\* for each feed that was active when it loaded the feeds, in their order, with
\* success: true where the feed's fetch succeeded and success: false where it
\* failed, whatever the other feeds' fetches did and whatever removeFeed and
\* updateFeed calls ran meanwhile.
C15_RefreshAllNeverRaises ==
    /\ batch.state # "raised"
    /\ batch.state = "returned" =>
          /\ batch.returned.length = Len(ActiveIds(batch.feeds))
          /\ \A k \in 1..batch.returned.length :
                /\ batch.returned.elements[k].feedId = ActiveIds(batch.feeds)[k]
                /\ batch.returned.elements[k].success = (MemberOf(k).fetch = "resolved")

\* C16: refreshAllFeeds makes no refreshFeed call, so no fetch and no
\* RefreshResult, for a feed whose isActive was false when it loaded the feeds;
\* and when it has returned, with no other call made and no feed removed
\* meanwhile, that feed's stored record and articles are what they were.
C16_InactiveFeedsSkipped ==
    \A k \in 1..Len(batch.feeds) :
        ~batch.feeds[k].isActive =>
            /\ \A i \in batch.members : procs[i].feedId # batch.feeds[k].id
            /\ batch.state = "returned" =>
                  \A e \in 1..batch.returned.length :
                      batch.returned.elements[e].feedId # batch.feeds[k].id
            /\ (/\ batch.state = "returned"
                /\ batch.members = 1..Len(procs)
                /\ last.op \notin {"removeFeed", "updateArticle"}) =>
                  /\ batch.feeds[k].id \in FeedIds(feeds)
                  /\ FindFeed(feeds, batch.feeds[k].id) = batch.feeds[k]
                  /\ feedArticles(articles, batch.feeds[k].id)
                        = feedArticles(batch.articles, batch.feeds[k].id)

\* A batch over an inactive feed and an active one whose refresh brought an article.
C16_BatchWithInactiveFeed ==
    /\ batch.state = "returned" /\ batch.members = 1..Len(procs)
    /\ last.op \notin {"removeFeed", "updateArticle"}
    /\ \E k \in 1..Len(batch.feeds) :
          ~batch.feeds[k].isActive /\ Len(feedArticles(batch.articles, batch.feeds[k].id)) > 0
    /\ \E i \in batch.members : procs[i].success /\ procs[i].newArticleCount > 0

\* Sum of newArticleCount over the results with success: true, and the number
\* of results with success: false.
RECURSIVE SumNew(_)
SumNew(results) ==
    IF results = << >> THEN 0
    ELSE (IF Head(results).success THEN Head(results).newArticleCount ELSE 0)
            + SumNew(Tail(results))

CountErrors(results) == Cardinality({k \in 1..Len(results) : ~results[k].success})

\* C17: what refreshAllFeeds returns has the results, a totalNew that is the
\* sum of newArticleCount over the results with success: true and a
\* totalErrors that is the number of results with success: false.
C17_ReturnsAggregate ==
    batch.state = "returned" =>
        /\ {"results", "totalNew", "totalErrors"} \subseteq DOMAIN batch.returned
        /\ batch.returned.totalNew = SumNew(batch.returned.results)
        /\ batch.returned.totalErrors = CountErrors(batch.returned.results)

C19_AbsentFeedRaises ==
    [][\A i \in 1..Len(procs) :
          (/\ procs[i].pc = "loadFeeds" /\ procs'[i].pc # "loadFeeds"
           /\ procs[i].feedId \notin FeedIds(feeds)) =>
              /\ procs'[i].pc = "done" /\ procs'[i].thrown
              /\ procs'[i].fetch = "none" /\ ~procs'[i].success
              /\ feeds' = feeds /\ articles' = articles]_vars

C19_RefreshOfAbsentFeedThrew ==
    \E i \in 1..Len(procs) :
        /\ procs[i].feedId = AbsentId /\ ~procs[i].inBatch
        /\ procs[i].pc = "done" /\ procs[i].thrown
        /\ Len(feeds) > 0

\* C20: whenever the stored record of a feed is the one a successful
\* refreshFeed call wrote (the counters that call loaded plus its
\* newArticleCount), the articles that call appended are in the stored
\* article collection.
C20_CountersNeverAheadOfArticles ==
    \A i \in 1..Len(procs) :
        (/\ procs[i].pc = "done" /\ procs[i].success
         /\ procs[i].feedId \in FeedIds(feeds)
         /\ FindFeed(feeds, procs[i].feedId).totalCount
               = FindFeed(procs[i].feeds, procs[i].feedId).totalCount + procs[i].newArticleCount) =>
            Cardinality(StoredOf(procs[i].feedId, IdsOf(procs[i].newArticles)))
                = procs[i].newArticleCount

C24_RemoveFeedFrame ==
    [][(clock' = clock + 1 /\ last'.op = "removeFeed") =>
          IF last'.feedId \in FeedIds(feeds)
          THEN /\ last'.ok /\ ~last'.thrown
               /\ last'.feedId \notin FeedIds(feeds')
               /\ Len(feeds') = Len(feeds) - 1
               /\ \A k \in 1..Len(feeds) :
                     feeds[k].id # last'.feedId =>
                         \E j \in 1..Len(feeds') : feeds'[j] = feeds[k]
               /\ feedArticles(articles', last'.feedId) = << >>
               /\ Len(articles') = Len(articles) - Len(feedArticles(articles, last'.feedId))
               /\ \A id \in FeedIds(feeds) \ {last'.feedId} :
                     feedArticles(articles', id) = feedArticles(articles, id)
          ELSE /\ last'.thrown /\ ~last'.ok
               /\ feeds' = feeds /\ articles' = articles]_vars

\* A feed with articles was removed and another feed's articles are stored.
C24_RemovedOneOfTwoFeeds ==
    /\ last.op = "removeFeed" /\ last.ok
    /\ Len(feeds) = 1 /\ Len(articles) >= 1
    /\ nextId > Len(articles) + 2

\* C27: every stored feed record has totalCount >= unreadCount >= 0.
C27_CountersOrdered ==
    \A k \in 1..Len(feeds) :
        feeds[k].totalCount >= feeds[k].unreadCount /\ feeds[k].unreadCount >= 0

\* A refreshFeed call has raised the counters of a feed that had articles.
C27_CountersRaisedByRefresh ==
    \E i \in 1..Len(procs) :
        /\ procs[i].pc = "done" /\ procs[i].success /\ procs[i].newArticleCount > 0
        /\ procs[i].feedId \in FeedIds(feeds)
        /\ FindFeed(feeds, procs[i].feedId).totalCount >= 2

C30_UpdateFeedFrame ==
    [][(clock' = clock + 1 /\ last'.op = "updateFeed") =>
          /\ articles' = articles
          /\ IF last'.feedId \in FeedIds(feeds)
             THEN /\ last'.ok /\ ~last'.thrown
                  /\ Len(feeds') = Len(feeds)
                  /\ \A k \in 1..Len(feeds) :
                        IF feeds[k].id # last'.feedId THEN feeds'[k] = feeds[k]
                        ELSE LET old == feeds[k]
                                 new == feeds'[k]
                                 p   == last'.payload
                             IN  /\ new.id = old.id /\ new.url = old.url
                                 /\ new.unreadCount = old.unreadCount
                                 /\ new.totalCount = old.totalCount
                                 /\ new.lastUpdated = old.lastUpdated
                                 /\ new.lastFetched = old.lastFetched
                                 /\ new.title = IF "title" \in p.given
                                                THEN p.title ELSE old.title
                                 /\ new.categoryId = IF "categoryId" \in p.given
                                                     THEN p.categoryId ELSE old.categoryId
                                 /\ new.refreshInterval = IF "refreshInterval" \in p.given
                                                          THEN p.refreshInterval
                                                          ELSE old.refreshInterval
                                 /\ new.isActive = IF "isActive" \in p.given
                                                   THEN p.isActive ELSE old.isActive
             ELSE /\ last'.thrown /\ ~last'.ok
                  /\ feeds' = feeds]_vars

\* The second of two feeds renamed, nothing else given, with articles stored.
C30_RenamedOneOfTwoFeeds ==
    /\ last.op = "updateFeed" /\ last.ok /\ last.payload.given = {"title"}
    /\ Len(feeds) = 2 /\ feeds[2].id = last.feedId
    /\ feeds[2].title = "Renamed" /\ feeds[1].title = ParsedTitle /\ feeds[2].isActive

\* C21: no stored feed record has totalCount > 0 while no article of that
\* feed is stored, in any state of an addFeed call, the state between its two
\* writes and the one a rejected write leaves included.
C21_ArticlesBeforeFeedRecord ==
    \A k \in 1..Len(feeds) :
        feeds[k].totalCount > 0 => Len(feedArticles(articles, feeds[k].id)) > 0

\* C23: when an addFeed or removeFeed call has thrown, the two collections are
\* what they were when it was made; when it has returned, the feed and its
\* articles are both stored (addFeed) or both gone (removeFeed).
C23_AllOrNothing ==
    (call.op \in {"addFeed", "removeFeed"} /\ call.pc = "done") =>
        IF call.thrown
        THEN feeds = call.before.feeds /\ articles = call.before.articles
        ELSE IF call.op = "addFeed"
        THEN /\ call.feedId \in FeedIds(feeds)
             /\ Len(feedArticles(articles, call.feedId)) = Len(call.parsed)
        ELSE /\ call.feedId \notin FeedIds(feeds)
             /\ feedArticles(articles, call.feedId) = << >>

\* C25: after a removeFeed that removed a feed, and until the next addFeed,
\* updateFeed or removeFeed, no feed record with that id is stored, whatever
\* the refreshFeed calls in flight do.
C25_RemovedStaysRemoved ==
    (last.op = "removeFeed" /\ last.ok) => last.feedId \notin FeedIds(feeds)

\* C26: the write of its articles by a refreshFeed call leaves every article
\* that was stored before it in place, with every field as it was.
C26_RefreshOnlyAdds ==
    [][(\E i \in 1..Len(procs) :
            procs[i].pc = "saveArticles" /\ procs'[i].pc = "saveFeeds") =>
          /\ Len(articles') >= Len(articles)
          /\ SubSeq(articles', 1, Len(articles)) = articles]_vars

\* C28: a refreshAllFeeds call that has been made eventually returns, every
\* one of its refreshFeed calls having returned a result.
C28_BatchEventuallyReturns ==
    (batch.state = "running") ~>
        (/\ batch.state = "returned"
         /\ \A i \in batch.members : procs[i].pc = "done" /\ ~procs[i].thrown)

\* C33: in every state reached by addFeed, refreshFeed, refreshAllFeeds over one
\* active feed, removeFeed and updateFeed calls run one after the other, each
\* stored feed's totalCount is the number of stored articles with its id.
C33_TotalCountIsArticleCount ==
    \A k \in 1..Len(feeds) :
        feeds[k].totalCount = Len(feedArticles(articles, feeds[k].id))

\* Two feeds with articles are stored, and a refreshFeed call has added
\* articles to one that had some already.
C33_CountedAfterAddAndRefresh ==
    /\ last.op = "refreshFeed" /\ last.ok /\ last.newArticleCount > 0
    /\ Len(feeds) = 2 /\ feeds[1].totalCount > 0 /\ feeds[2].totalCount > 0
    /\ FindFeed(feeds, last.feedId).totalCount > last.newArticleCount

\* C37: a deleteCategory call that succeeds removes the category, leaves no
\* stored feed with the deleted id as its categoryId, gives each feed that had
\* it the reassignTo argument (no category when it is not given), and leaves
\* every other feed as it was.
C37_DeleteCategoryReassigns ==
    [][(Len(categories') < Len(categories)) =>
          LET id == last'.categoryId
              to == last'.reassignTo
          IN  /\ last'.op = "deleteCategory" /\ last'.ok
              /\ id \in CategoryIds(categories) /\ id \notin CategoryIds(categories')
              /\ Len(feeds') = Len(feeds)
              /\ \A k \in 1..Len(feeds) :
                    /\ feeds'[k].categoryId # id
                    /\ feeds'[k] = IF feeds[k].categoryId = id
                                   THEN [feeds[k] EXCEPT !.categoryId = to]
                                   ELSE feeds[k]]_vars

\* C38: no two stored categories have names that are equal once lower-cased;
\* and a createCategory or updateCategory call whose name, lower-cased, is that
\* of another stored category throws and leaves the categories as they were.
C38_NamesUniqueIgnoringCase ==
    /\ [](\A i, j \in 1..Len(categories) :
            i # j => toLowerCase(categories[i].name) # toLowerCase(categories[j].name))
    /\ [][(last'.op \in {"createCategory", "updateCategory"} /\ last'.error = "already exists")
            => (last'.thrown /\ categories' = categories)]_vars

\* Two categories are stored and the rename of one to the other's name in
\* another case has just thrown.
C38_RenameCollided ==
    /\ last.op = "updateCategory" /\ last.thrown /\ last.error = "already exists"
    /\ Len(categories) = 2
    /\ {categories[1].name, categories[2].name} \in {{"News", "Tech"}, {"news", "Tech"}}

\* C34: in every state reached by addFeed, refreshFeed, markAsRead,
\* markAsUnread, markFeedAsRead, markAllAsRead and cleanupOldArticles calls run
\* one after the other, each stored feed's unreadCount is the number of its
\* stored articles that are not read.
C34_UnreadCountIsUnreadArticles ==
    \A k \in 1..Len(feeds) :
        feeds[k].unreadCount =
            Len(SelectSeq(feedArticles(articles, feeds[k].id), LAMBDA a : ~a.isRead))

\* C35: whenever no refreshFeed or refreshAllFeeds call is in flight, every
\* stored article's feedId is the id of a stored feed.
C35_ArticlesBelongToStoredFeeds ==
    (InFlight = {} /\ batch.state # "running") =>
        \A k \in 1..Len(articles) : articles[k].feedId \in FeedIds(feeds)

\* C36: when a refreshFeed call has returned success: false, whatever was
\* caught (a rejected fetch or a rejected storage write), the stored articles
\* are what they were when the call was made, and newArticleCount is 0.
C36_FailedRefreshStoresNothing ==
    (/\ call.op = "refreshFeed" /\ call.pc = "done" /\ ~call.thrown
     /\ last.op = "refreshFeed" /\ ~last.ok) =>
        /\ last.newArticleCount = 0
        /\ articles = call.before.articles

\* The fields a payload gives are the stored feed's.
HasPayload(feed, payload) == \A key \in payload.given : feed[key] = payload[key]

\* C31: when an updateFeed call has completed and no refreshFeed call is in
\* flight any more, the stored feed has the field values the call gave it.
C31_UpdateSurvivesRefresh ==
    (last.op = "updateFeed" /\ last.ok /\ InFlight = {}) =>
        /\ last.feedId \in FeedIds(feeds)
        /\ HasPayload(FindFeed(feeds, last.feedId), last.payload)

\* No two items of a parsed document have the same url; no two stored
\* articles have the same feedId and url.
DistinctUrls(parsed) ==
    \A i, j \in 1..Len(parsed) : i # j => parsed[i].url # parsed[j].url

NoDuplicate(arts) ==
    \A i, j \in 1..Len(arts) :
        i # j => ~(arts[i].feedId = arts[j].feedId /\ arts[i].url = arts[j].url)

\* C32: with every document fetched having pairwise distinct urls, no write
\* of its articles by a refreshFeed call stores a second article with the
\* feedId and url of another, however the calls in flight interleave.
C32_OverlapStoresNoDuplicate ==
    [][(/\ \E i \in 1..Len(procs) :
              procs[i].pc = "saveArticles" /\ procs'[i].pc = "saveFeeds"
        /\ \A i \in 1..Len(procs) : DistinctUrls(procs[i].parsed)
        /\ NoDuplicate(articles))
          => NoDuplicate(articles')]_vars

\* Two calls for the same feed fetched the same item, each found it new
\* against the articles it had loaded, both have returned, and the item is
\* stored once.
C32_BothCallsSawTheItemNew ==
    /\ Len(procs) = 2 /\ InFlight = {}
    /\ procs[1].feedId = procs[2].feedId
    /\ procs[1].success /\ procs[2].success
    /\ Len(procs[1].newArticles) = 1 /\ Len(procs[2].newArticles) = 1
    /\ procs[1].newArticles[1].url = procs[2].newArticles[1].url
    /\ Len(feedArticles(articles, procs[1].feedId)) = 1

====
